---- MODULE Spec2Model ----
(***************************************************************************)
(* State-machine model of src/main.py (GOODPERFORMANCETIMEAPPathfinder):   *)
(* the occupancy grid, the six search strategies (BFS, DFS, UCS, DLS,      *)
(* IDDFS, Bidirectional), the obstacle injector, the pause/quit event      *)
(* handling inside a run, and the main-loop handlers that edit the grid.   *)
(*                                                                         *)
(* Positions are <<row, col>>.  A cost is a Python float, kept exactly: the *)
(* tenths it stands for (1.0 -> 10, 1.4 -> 14) and the distance of the     *)
(* double from that decimal value, so that two sums of the same moves      *)
(* added in a different order compare as the program compares them.        *)
(***************************************************************************)
EXTENDS Integers, Sequences, FiniteSets, TLC

VARIABLES
    rows, cols,                 \* self.rows, self.cols
    grid,                       \* self.grid : position -> CellType
    start, target,              \* self.start, self.target
    current_algorithm,          \* self.current_algorithm
    current_mode,               \* self.current_mode
    enable_dynamic_obstacles,   \* self.enable_dynamic_obstacles
    dynamic_obstacles_added,    \* self.dynamic_obstacles_added (the obstacle log)
    is_searching, search_complete, paused,
    pc,                         \* "main" | a strategy name | "ret" (strategy returned)
                                \* | "get_neighbors", "neighbors" (neighbor specification)
    queue,                      \* BFS queue / DFS stack / UCS heap / forward_queue
    bqueue,                     \* backward_queue
    visited,                    \* visited set of BFS, DFS, UCS
    costs,                      \* UCS costs dict
    fvisited, bvisited,         \* forward_visited, backward_visited dicts
    stack,                      \* activation records of dls_recursive
    call,                       \* pending call of dls_recursive (<<>> or <<args>>)
    depth,                      \* loop variable of iterative_deepening_dfs
    success,                    \* local `success` of run_algorithm
    result,                     \* the outcome run_algorithm reports
    path,                       \* the path handed to visualize_path
    hist,                       \* what happened in the current run (history)
    budget                      \* main-loop events the user will still deliver

gridVars == <<rows, cols, grid, start, target>>
uiVars   == <<current_algorithm, current_mode, enable_dynamic_obstacles>>
ctlVars  == <<is_searching, search_complete, paused>>
locVars  == <<queue, bqueue, visited, costs, fvisited, bvisited, stack, call, depth>>
outVars  == <<success, result, path>>
vars     == <<gridVars, uiVars, ctlVars, locVars, outVars,
              dynamic_obstacles_added, pc, hist, budget>>

(***************************************************************************)
(* Bounds of the model.                                                    *)
(***************************************************************************)
GridRows == 2          \* rows of the grid the session specification starts with
GridCols == 3          \* columns of that grid
MaxUserActions == 3    \* main-loop events delivered in one session
MaxInject == 2         \* obstacle injections in one session
MaxEvents == 1         \* events pending at one call of handle_events_during_search
MaxRows == 3           \* search specification: largest number of rows
MaxCols == 3           \* search specification: largest number of columns
MaxCells == 9          \* search specification: largest number of cells
MaxWalls == 2          \* search specification: largest number of walls
MaxCostRows == 3       \* cost specification: largest number of rows
MaxCostCols == 4       \* cost specification: largest number of columns
MaxCostCells == 12     \* cost specification: largest number of cells
MaxCostWalls == 1      \* cost specification: largest number of walls
MaxBlockedRows == 2    \* blocked-target specification: largest number of rows
MaxBlockedCols == 3    \* blocked-target specification: largest number of columns
MaxBlockedCells == 6   \* blocked-target specification: largest number of cells
MaxBlockedWalls == 2   \* blocked-target specification: largest number of walls

(***************************************************************************)
(* Program constants.                                                      *)
(***************************************************************************)
DefaultDepthLimit == 15
IddfsDepths == 30
OrthogonalCost == 10
DiagonalCost == 14

(***************************************************************************)
(* Node.cost is a double.  Double(tenths, err) is the value                *)
(*     tenths / 10 + (err / 5) * 2^-52,                                    *)
(* which is how every cost of the program can be written: 1.0 is           *)
(* Double(10, 0) and the literal 1.4 is the double 1.4 - 0.4 * 2^-52,      *)
(* Double(14, -2).  In units of 2^-52 / 5 the value is tenths * 2^51 + err *)
(* and the doubles of [2^k, 2^(k+1)) are the multiples of 5 * 2^k.         *)
(***************************************************************************)
Double(tenths, err) == [tenths |-> tenths, err |-> err]

Zero == Double(0, 0)

One == Double(OrthogonalCost, 0)

OnePointFour == Double(DiagonalCost, -2)

\* the k with 2^k <= x < 2^(k + 1), for a value x >= 1
Exponent(tenths, err) ==
    LET RECURSIVE up(_)
        up(k) == IF \/ tenths > 10 * 2^(k + 1)
                    \/ (tenths = 10 * 2^(k + 1) /\ err >= 0)
                 THEN up(k + 1) ELSE k
    IN  up(0)

\* the value modulo 5 * 2^k in units of 2^-52 / 5: 2^51 is 0 modulo 2^k and 3 modulo 5
Residue(tenths, err, k) ==
    CHOOSE r \in 0 .. 5 * 2^k - 1 :
       /\ r % 2^k = err % 2^k
       /\ r % 5 = (3 * tenths + err) % 5

\* a + b of two doubles: the exact sum rounded to the nearest double, ties to the even
\* mantissa
FloatAdd(a, b) ==
    LET tenths == a.tenths + b.tenths
        err == a.err + b.err
        k == Exponent(tenths, err)
        spacing == 5 * 2^k
        r == Residue(tenths, err, k)
        below == Double(tenths, err - r)
        above == Double(tenths, err + spacing - r)
    IN  IF 2 * r < spacing THEN below
        ELSE IF 2 * r > spacing THEN above
        ELSE IF Residue(tenths, err, k + 1) = r THEN below ELSE above

\* a < b of two doubles
FloatLt(a, b) ==
    \/ a.tenths < b.tenths
    \/ (a.tenths = b.tenths /\ a.err < b.err)

EMPTY == "EMPTY"
WALL == "WALL"
START == "START"
TARGET == "TARGET"
FRONTIER == "FRONTIER"
EXPLORED == "EXPLORED"
PATH == "PATH"
DYNAMIC_OBSTACLE == "DYNAMIC_OBSTACLE"
CellType == {EMPTY, WALL, START, TARGET, FRONTIER, EXPLORED, PATH, DYNAMIC_OBSTACLE}

algorithms == <<"BFS", "DFS", "UCS", "DLS", "IDDFS", "Bidirectional">>
modes == <<"WALL", "START", "TARGET">>

PathFound == "Path found!"
NoPathFound == "No path found!"

\* variant: the four orthogonal moves only
directions_orthogonal == << <<-1, 0>>, <<0, 1>>, <<1, 0>>, <<0, -1>> >>

directions ==
    << <<-1, 0>>, <<0, 1>>, <<1, 0>>, <<1, 1>>,
       <<0, -1>>, <<-1, -1>>, <<-1, 1>>, <<1, -1>> >>

wall_positions ==
    { <<5, 8>>, <<6, 8>>, <<7, 8>>, <<8, 8>>, <<9, 8>>,
      <<12, 5>>, <<12, 6>>, <<12, 7>>, <<12, 8>>, <<12, 9>>, <<12, 10>>,
      <<15, 15>>, <<15, 16>>, <<15, 17>>, <<16, 17>>, <<17, 17>>,
      <<3, 15>>, <<4, 15>>, <<10, 20>>, <<11, 20>> }

Cells(r, c) == (0 .. r - 1) \X (0 .. c - 1)

Abs(n) == IF n < 0 THEN -n ELSE n

Range(s) == { s[i] : i \in DOMAIN s }

\* a for loop over items: Body(st, item) is one pass, st what the passes hand on; the
\* list and the state are evaluated once before the first pass
ForEach(Body(_, _), items, st) ==
    LET RECURSIVE passes(_, _)
        passes(its, s) ==
            IF its = <<>> THEN s
            ELSE CHOOSE r \in { passes(rest, next) :
                                   rest \in {Tail(its)}, next \in {Body(s, Head(its))} } : TRUE
    IN  CHOOSE r \in { passes(its, first) : its \in {items}, first \in {st} } : TRUE

\* the sequence is evaluated once, then indexed from its end
Reverse(s) ==
    CHOOSE r \in { [i \in 1 .. Len(x) |-> x[Len(x) + 1 - i]] : x \in {s} } : TRUE

(***************************************************************************)
(* Node: position, accumulated cost, parent link (<<>> is None).           *)
(***************************************************************************)
Node(x, y, cost, parent) == [x |-> x, y |-> y, cost |-> cost, parent |-> parent]

NodePos(n) == <<n.x, n.y>>

\* variant: the cell's state is not consulted
is_valid_position_bounds_only(g, row, col) ==
    /\ 0 <= row /\ row < rows
    /\ 0 <= col /\ col < cols

is_valid_position(g, row, col) ==
    /\ 0 <= row /\ row < rows
    /\ 0 <= col /\ col < cols
    /\ g[<<row, col>>] \notin {WALL, DYNAMIC_OBSTACLE}

\* variant: every move costs the same
get_neighbors_unit_cost(g, node) ==
    LET RECURSIVE scan(_)
        scan(i) ==
            IF i > Len(directions) THEN <<>>
            ELSE LET new_row == node.x + directions[i][1]
                     new_col == node.y + directions[i][2]
                 IN  IF is_valid_position(g, new_row, new_col)
                     THEN <<Node(new_row, new_col, FloatAdd(node.cost, One), <<node>>)>>
                              \o scan(i + 1)
                     ELSE scan(i + 1)
    IN  scan(1)

get_neighbors(g, node) ==
    LET RECURSIVE scan(_)
        scan(i) ==
            IF i > Len(directions) THEN <<>>
            ELSE LET dr == directions[i][1]
                     dc == directions[i][2]
                     new_row == node.x + dr
                     new_col == node.y + dc
                     cost == IF Abs(dr) + Abs(dc) = 2 THEN OnePointFour ELSE One
                 IN  IF is_valid_position(g, new_row, new_col)
                     THEN <<Node(new_row, new_col, FloatAdd(node.cost, cost), <<node>>)>>
                              \o scan(i + 1)
                     ELSE scan(i + 1)
    IN  scan(1)

(***************************************************************************)
(* add_dynamic_obstacle: the outcomes the two random draws allow.  Each    *)
(* outcome is the grid, the log and the returned flag.                     *)
(***************************************************************************)
\* variant: the new position is put in front of the log
add_dynamic_obstacle_prepend(g, log) ==
    LET none == [grid |-> g, log |-> log, ret |-> FALSE]
        empty_cells == { p \in DOMAIN g : g[p] = EMPTY }
    IN  IF ~enable_dynamic_obstacles THEN {none}
        ELSE IF Len(log) >= MaxInject THEN {none}
        ELSE {none} \cup
             { [grid |-> [g EXCEPT ![p] = DYNAMIC_OBSTACLE],
                log |-> <<p>> \o log,
                ret |-> TRUE] : p \in empty_cells }

\* variant: the cell is drawn from the cells the search has explored
add_dynamic_obstacle_explored(g, log) ==
    LET none == [grid |-> g, log |-> log, ret |-> FALSE]
        explored_cells == { p \in DOMAIN g : g[p] = EXPLORED }
    IN  IF ~enable_dynamic_obstacles THEN {none}
        ELSE IF Len(log) >= MaxInject THEN {none}
        ELSE {none} \cup
             { [grid |-> [g EXCEPT ![p] = DYNAMIC_OBSTACLE],
                log |-> Append(log, p),
                ret |-> TRUE] : p \in explored_cells }

\* variant: the cell is drawn from all cells, whatever they hold
add_dynamic_obstacle_any_cell(g, log) ==
    LET none == [grid |-> g, log |-> log, ret |-> FALSE]
    IN  IF ~enable_dynamic_obstacles THEN {none}
        ELSE IF Len(log) >= MaxInject THEN {none}
        ELSE {none} \cup
             { [grid |-> [g EXCEPT ![p] = DYNAMIC_OBSTACLE],
                log |-> Append(log, p),
                ret |-> TRUE] : p \in DOMAIN g }

add_dynamic_obstacle(g, log) ==
    LET none == [grid |-> g, log |-> log, ret |-> FALSE]
        empty_cells == { p \in DOMAIN g : g[p] = EMPTY }
    IN  IF ~enable_dynamic_obstacles THEN {none}
        ELSE IF Len(log) >= MaxInject THEN {none}
        ELSE {none} \cup
             { [grid |-> [g EXCEPT ![p] = DYNAMIC_OBSTACLE],
                log |-> Append(log, p),
                ret |-> TRUE] : p \in empty_cells }

\* variant: the clear resets the dynamic obstacles as well
clear_search_visualization_with_obstacles(g, s, t) ==
    [ p \in DOMAIN g |->
        IF p = t THEN TARGET
        ELSE IF p = s THEN START
        ELSE IF g[p] \in {FRONTIER, EXPLORED, PATH, DYNAMIC_OBSTACLE} THEN EMPTY
        ELSE g[p] ]

clear_search_visualization(g, s, t) ==
    [ p \in DOMAIN g |->
        IF p = t THEN TARGET
        ELSE IF p = s THEN START
        ELSE IF g[p] \in {FRONTIER, EXPLORED, PATH} THEN EMPTY
        ELSE g[p] ]

clear_all(g) ==
    [ p \in DOMAIN g |-> IF g[p] \notin {START, TARGET} THEN EMPTY ELSE g[p] ]

reconstruct_path(node) ==
    LET RECURSIVE walk(_)
        walk(current) ==
            <<NodePos(current)>> \o
                (IF current.parent = <<>> THEN <<>> ELSE walk(current.parent[1]))
    IN  Reverse(walk(node))

visualize_path(g, p, s, t) ==
    [ q \in DOMAIN g |->
        IF q \in Range(p) /\ q # s /\ q # t THEN PATH ELSE g[q] ]

(***************************************************************************)
(* handle_events_during_search on the pending events evs: the returned     *)
(* flag and the pause flag afterwards.                                     *)
(***************************************************************************)
Events == {"QUIT", "SPACE", "OTHER"}

\* a left click on the Start button, delivered while a strategy is running
StartClick == "START_CLICK"

\* variant: the click is taken for a pause request
handle_events_during_search_click_pauses(evs, p) ==
    [ok |-> "QUIT" \notin Range(evs),
     paused |-> IF StartClick \in Range(evs) THEN ~p ELSE p]

RECURSIVE handle_events_during_search(_, _)
handle_events_during_search(evs, p) ==
    IF evs = <<>> THEN [ok |-> TRUE, paused |-> p]
    ELSE IF Head(evs) = "QUIT" THEN [ok |-> FALSE, paused |-> p]
    ELSE IF Head(evs) = "SPACE" THEN handle_events_during_search(Tail(evs), ~p)
    ELSE handle_events_during_search(Tail(evs), p)

EventSeqs == UNION { [1 .. n -> Events] : n \in 0 .. MaxEvents }

(***************************************************************************)
(* The strategies return into run_algorithm, which records the outcome.    *)
(* hist.cause names the return statement taken: "found", "exhausted" (the  *)
(* frontier ran out), "paused" (the loop test saw the pause flag),         *)
(* "cancelled" (handle_events_during_search returned False).               *)
(***************************************************************************)
NoLocals ==
    /\ queue' = <<>>
    /\ bqueue' = <<>>
    /\ visited' = {}
    /\ costs' = <<>>
    /\ fvisited' = <<>>
    /\ bvisited' = <<>>
    /\ stack' = <<>>
    /\ call' = <<>>
    /\ depth' = 0

Return(value, cause, h) ==
    /\ pc' = "ret"
    /\ success' = value
    /\ hist' = [h EXCEPT !.cause = cause]
    /\ NoLocals

\* the run record: its strategy, the grid, start and target it began with, the events
\* and injections it saw, every return of depth_limited_search as <<limit, value>>,
\* whether a click on the Start button arrived during it, and for a bidirectional search
\* that met the side that saw the meeting and the meeting position
NoHist == [algorithm |-> "none", grid0 |-> <<>>, start0 |-> <<>>, target0 |-> <<>>,
           quit |-> FALSE, pause |-> FALSE, inject |-> FALSE, dls |-> <<>>,
           cause |-> "none", click |-> FALSE, meet |-> <<>>]

RECURSIVE Handled(_)
Handled(evs) ==
    IF evs = <<>> THEN <<>>
    ELSE IF Head(evs) = "QUIT" THEN <<"QUIT">>
    ELSE <<Head(evs)>> \o Handled(Tail(evs))

Saw(h, evs, inj) ==
    [h EXCEPT !.quit = h.quit \/ "QUIT" \in Range(Handled(evs)),
              !.pause = h.pause \/ "SPACE" \in Range(Handled(evs)),
              !.inject = h.inject \/ inj,
              !.click = h.click \/ StartClick \in Range(Handled(evs))]

(***************************************************************************)
(* breadth_first_search                                                    *)
(***************************************************************************)
\* variant: the oldest entry is read and left in the queue
popleft_peek(q) == [item |-> Head(q), rest |-> q]

\* variant: the newest entry is taken instead of the oldest
popleft_newest(q) == [item |-> q[Len(q)], rest |-> SubSeq(q, 1, Len(q) - 1)]

popleft(q) == [item |-> Head(q), rest |-> Tail(q)]

\* variant: the neighbor is queued without being added to the visited set
BFSNeighbor_unmarked(st, neighbor) ==
    LET pos == NodePos(neighbor)
    IN  IF pos \notin st.visited /\ is_valid_position(st.grid, neighbor.x, neighbor.y)
        THEN [grid |-> IF pos # target THEN [st.grid EXCEPT ![pos] = FRONTIER]
                       ELSE st.grid,
              visited |-> st.visited,
              queue |-> Append(st.queue, neighbor)]
        ELSE st

BFSNeighbor(st, neighbor) ==
    LET pos == NodePos(neighbor)
    IN  IF pos \notin st.visited /\ is_valid_position(st.grid, neighbor.x, neighbor.y)
        THEN [grid |-> IF pos # target THEN [st.grid EXCEPT ![pos] = FRONTIER]
                       ELSE st.grid,
              visited |-> st.visited \cup {pos},
              queue |-> Append(st.queue, neighbor)]
        ELSE st

BFSNeighbors(nbrs, g, vis, q) ==
    ForEach(BFSNeighbor, nbrs, [grid |-> g, visited |-> vis, queue |-> q])

\* lines 269-285: one iteration of the while loop between the injector and the events
BFSIteration(g, q, vis) ==
    LET p == popleft(q)
        current == p.item
    IN  IF NodePos(current) = target
        THEN [found |-> TRUE, path |-> reconstruct_path(current)]
        ELSE LET g1 == IF NodePos(current) # start
                       THEN [g EXCEPT ![NodePos(current)] = EXPLORED]
                       ELSE g
             IN  [found |-> FALSE] @@
                 BFSNeighbors(get_neighbors(g1, current), g1, vis, p.rest)

BFSStep(evs) ==
    /\ pc = "BFS"
    /\ IF queue = <<>> \/ paused
       THEN /\ Return(FALSE, IF queue = <<>> THEN "exhausted" ELSE "paused", hist)
            /\ UNCHANGED <<grid, dynamic_obstacles_added, paused, path>>
       ELSE \E a \in add_dynamic_obstacle(grid, dynamic_obstacles_added) :
            \E it \in {BFSIteration(a.grid, queue, visited)} :
            LET h == handle_events_during_search(evs, paused)
            IN  /\ dynamic_obstacles_added' = a.log
                /\ IF it.found
                   THEN /\ path' = it.path
                        /\ grid' = visualize_path(a.grid, path', start, target)
                        /\ Return(TRUE, "found", Saw(hist, <<>>, a.ret))
                        /\ UNCHANGED paused
                   ELSE /\ grid' = it.grid
                        /\ paused' = h.paused
                        /\ path' = path
                        /\ IF h.ok
                           THEN /\ queue' = it.queue
                                /\ visited' = it.visited
                                /\ hist' = Saw(hist, evs, a.ret)
                                /\ UNCHANGED <<pc, success, bqueue, costs, fvisited,
                                               bvisited, stack, call, depth>>
                           ELSE Return(FALSE, "cancelled", Saw(hist, evs, a.ret))
    /\ UNCHANGED <<rows, cols, start, target, uiVars, is_searching, search_complete,
                   result, budget>>

(***************************************************************************)
(* depth_first_search                                                      *)
(***************************************************************************)
pop(stk) == [item |-> stk[Len(stk)], rest |-> SubSeq(stk, 1, Len(stk) - 1)]

\* variant: the list is walked in generation order
reversed_forward(s) == s

reversed(s) == Reverse(s)

DFSNeighbor(st, neighbor) ==
    LET pos == NodePos(neighbor)
    IN  IF pos \notin st.visited /\ is_valid_position(st.grid, neighbor.x, neighbor.y)
        THEN [grid |-> IF pos # target THEN [st.grid EXCEPT ![pos] = FRONTIER]
                       ELSE st.grid,
              visited |-> st.visited \cup {pos},
              queue |-> Append(st.queue, neighbor)]
        ELSE st

DFSNeighbors(nbrs, g, vis, stk) ==
    ForEach(DFSNeighbor, nbrs, [grid |-> g, visited |-> vis, queue |-> stk])

DFSIteration(g, stk, vis) ==
    LET p == pop(stk)
        current == p.item
    IN  IF NodePos(current) = target
        THEN [found |-> TRUE, path |-> reconstruct_path(current)]
        ELSE LET g1 == IF NodePos(current) # start
                       THEN [g EXCEPT ![NodePos(current)] = EXPLORED]
                       ELSE g
             IN  [found |-> FALSE] @@
                 DFSNeighbors(reversed(get_neighbors(g1, current)), g1, vis, p.rest)

DFSStep(evs) ==
    /\ pc = "DFS"
    /\ IF queue = <<>> \/ paused
       THEN /\ Return(FALSE, IF queue = <<>> THEN "exhausted" ELSE "paused", hist)
            /\ UNCHANGED <<grid, dynamic_obstacles_added, paused, path>>
       ELSE \E a \in add_dynamic_obstacle(grid, dynamic_obstacles_added) :
            \E it \in {DFSIteration(a.grid, queue, visited)} :
            LET h == handle_events_during_search(evs, paused)
            IN  /\ dynamic_obstacles_added' = a.log
                /\ IF it.found
                   THEN /\ path' = it.path
                        /\ grid' = visualize_path(a.grid, path', start, target)
                        /\ Return(TRUE, "found", Saw(hist, <<>>, a.ret))
                        /\ UNCHANGED paused
                   ELSE /\ grid' = it.grid
                        /\ paused' = h.paused
                        /\ path' = path
                        /\ IF h.ok
                           THEN /\ queue' = it.queue
                                /\ visited' = it.visited
                                /\ hist' = Saw(hist, evs, a.ret)
                                /\ UNCHANGED <<pc, success, bqueue, costs, fvisited,
                                               bvisited, stack, call, depth>>
                           ELSE Return(FALSE, "cancelled", Saw(hist, evs, a.ret))
    /\ UNCHANGED <<rows, cols, start, target, uiVars, is_searching, search_complete,
                   result, budget>>

(***************************************************************************)
(* uniform_cost_search.  heappush and heappop are those of heapq on a list *)
(* of Nodes compared by Node.__lt__ (cost only).                           *)
(***************************************************************************)
\* variant: the comparison of Node.__lt__ turned around
NodeLt_greater(a, b) == FloatLt(b.cost, a.cost)

NodeLt(a, b) == FloatLt(a.cost, b.cost)

RECURSIVE siftdown(_, _, _, _)
siftdown(heap, startpos, pos, newitem) ==
    \* positions are 0-based as in heapq; heap[i + 1] is heapq's heap[i]
    IF pos > startpos
    THEN LET parentpos == (pos - 1) \div 2
             parent == heap[parentpos + 1]
         IN  IF NodeLt(newitem, parent)
             THEN siftdown([heap EXCEPT ![pos + 1] = parent], startpos, parentpos, newitem)
             ELSE [heap EXCEPT ![pos + 1] = newitem]
    ELSE [heap EXCEPT ![pos + 1] = newitem]

heappush(heap, item) ==
    siftdown(Append(heap, item), 0, Len(heap), item)

RECURSIVE siftup(_, _, _)
siftup(heap, pos, newitem) ==
    \* the loop of heapq._siftup: bubble the smaller child up until a leaf is hit
    LET endpos == Len(heap)
        childpos == 2 * pos + 1
        rightpos == childpos + 1
        pick == IF rightpos < endpos /\ ~NodeLt(heap[childpos + 1], heap[rightpos + 1])
                THEN rightpos ELSE childpos
    IN  IF childpos < endpos
        THEN siftup([heap EXCEPT ![pos + 1] = heap[pick + 1]], pick, newitem)
        ELSE siftdown([heap EXCEPT ![pos + 1] = newitem], 0, pos, newitem)

heappop(heap) ==
    LET lastelt == heap[Len(heap)]
        rest == SubSeq(heap, 1, Len(heap) - 1)
    IN  IF rest # <<>>
        THEN [item |-> rest[1], rest |-> siftup([rest EXCEPT ![1] = lastelt], 0, lastelt)]
        ELSE [item |-> lastelt, rest |-> rest]

\* variant: a neighbor is pushed again when its cost equals the recorded cost
UCSNeighbor_or_equal(st, neighbor) ==
    LET pos == NodePos(neighbor)
    IN  IF /\ pos \notin st.visited
           /\ is_valid_position(st.grid, neighbor.x, neighbor.y)
           /\ (pos \notin DOMAIN st.costs \/ ~FloatLt(st.costs[pos], neighbor.cost))
        THEN [grid |-> IF pos # target THEN [st.grid EXCEPT ![pos] = FRONTIER]
                       ELSE st.grid,
              visited |-> st.visited,
              costs |-> (pos :> neighbor.cost) @@ st.costs,
              queue |-> heappush(st.queue, neighbor)]
        ELSE st

UCSNeighbor(st, neighbor) ==
    LET pos == NodePos(neighbor)
    IN  IF /\ pos \notin st.visited
           /\ is_valid_position(st.grid, neighbor.x, neighbor.y)
           /\ (pos \notin DOMAIN st.costs \/ FloatLt(neighbor.cost, st.costs[pos]))
        THEN [grid |-> IF pos # target THEN [st.grid EXCEPT ![pos] = FRONTIER]
                       ELSE st.grid,
              visited |-> st.visited,
              costs |-> (pos :> neighbor.cost) @@ st.costs,
              queue |-> heappush(st.queue, neighbor)]
        ELSE st

UCSNeighbors(nbrs, g, vis, cst, heap) ==
    ForEach(UCSNeighbor, nbrs,
            [grid |-> g, visited |-> vis, costs |-> cst, queue |-> heap])

\* lines 349-366: the node popped is closed and marked, its neighbors are relaxed
UCSIteration(g, p, vis0, cst) ==
    LET current == p.item
        vis == vis0 \cup {NodePos(current)}
        g1 == IF NodePos(current) # start
              THEN [g EXCEPT ![NodePos(current)] = EXPLORED]
              ELSE g
    IN  UCSNeighbors(get_neighbors(g1, current), g1, vis, cst, p.rest)

UCSStep(evs) ==
    /\ pc = "UCS"
    /\ IF queue = <<>> \/ paused
       THEN /\ Return(FALSE, IF queue = <<>> THEN "exhausted" ELSE "paused", hist)
            /\ UNCHANGED <<grid, dynamic_obstacles_added, paused, path>>
       ELSE \E a \in add_dynamic_obstacle(grid, dynamic_obstacles_added) :
            \E p \in {heappop(queue)} :
            LET current == p.item
            IN  /\ dynamic_obstacles_added' = a.log
                /\ IF NodePos(current) \in visited
                   THEN \* continue
                        /\ grid' = a.grid
                        /\ queue' = p.rest
                        /\ hist' = Saw(hist, <<>>, a.ret)
                        /\ UNCHANGED <<pc, success, bqueue, visited, costs, fvisited,
                                       bvisited, stack, call, depth, paused, path>>
                   ELSE IF NodePos(current) = target
                   THEN /\ path' = reconstruct_path(current)
                        /\ grid' = visualize_path(a.grid, path', start, target)
                        /\ Return(TRUE, "found", Saw(hist, <<>>, a.ret))
                        /\ UNCHANGED paused
                   ELSE \E r \in {UCSIteration(a.grid, p, visited, costs)} :
                        LET vis == visited \cup {NodePos(current)}
                            h == handle_events_during_search(evs, paused)
                        IN  /\ grid' = r.grid
                            /\ paused' = h.paused
                            /\ path' = path
                            /\ IF h.ok
                               THEN /\ queue' = r.queue
                                    /\ visited' = vis
                                    /\ costs' = r.costs
                                    /\ hist' = Saw(hist, evs, a.ret)
                                    /\ UNCHANGED <<pc, success, bqueue, fvisited,
                                                   bvisited, stack, call, depth>>
                               ELSE Return(FALSE, "cancelled", Saw(hist, evs, a.ret))
    /\ UNCHANGED <<rows, cols, start, target, uiVars, is_searching, search_complete,
                   result, budget>>

(***************************************************************************)
(* depth_limited_search and iterative_deepening_dfs.  An activation record *)
(* of dls_recursive holds its arguments, the neighbor list its for loop    *)
(* iterates and the index i of the neighbor the loop is at.                *)
(***************************************************************************)
\* variant: the recursion gives up one level early
DepthExhausted_at_zero(d) == d <= 0

DepthExhausted(d) == d < 0

DLSDone(value, cause, h0, pz) ==
    \* depth_limited_search returned `value` to its caller; pz is self.paused then
    LET limit == IF pc = "DLS" THEN DefaultDepthLimit ELSE depth
        h == [h0 EXCEPT !.dls = Append(@, <<limit, value>>)]
    IN  IF pc = "DLS" THEN Return(value, cause, h)
        ELSE IF value THEN Return(TRUE, "found", h)
        ELSE IF pz THEN Return(FALSE, "paused", h)
        ELSE IF depth + 1 < IddfsDepths
        THEN /\ depth' = depth + 1
             /\ stack' = <<>>
             /\ call' = <<>>
             /\ hist' = h
             /\ UNCHANGED <<pc, success, queue, bqueue, visited, costs, fvisited,
                            bvisited>>
        ELSE Return(FALSE, "exhausted", h)

DLSReturns(stk, value, cause, h, pz) ==
    \* an activation returned `value` to the activations stk below it
    IF value \/ stk = <<>> THEN DLSDone(value, cause, h, pz)
    ELSE /\ stack' = [stk EXCEPT ![Len(stk)].i = @ + 1]
         /\ call' = <<>>
         /\ hist' = h
         /\ UNCHANGED <<pc, success, depth, queue, bqueue, visited, costs,
                        fvisited, bvisited>>

IDDFSIter ==
    /\ pc = "IDDFS"
    /\ call = <<>>
    /\ stack = <<>>
    /\ grid' = clear_search_visualization(grid, start, target)
    /\ call' = <<[node |-> Node(start[1], start[2], Zero, <<>>), depth |-> depth,
                  visited |-> {}, path |-> <<>>]>>
    /\ UNCHANGED <<rows, cols, start, target, uiVars, ctlVars, outVars, queue, bqueue,
                   visited, costs, fvisited, bvisited, stack, depth,
                   dynamic_obstacles_added, pc, hist, budget>>

DLSCall ==
    /\ pc \in {"DLS", "IDDFS"}
    /\ call # <<>>
    /\ \E c \in {call[1]}, pos \in {NodePos(call[1].node)} :
           IF DepthExhausted(c.depth) \/ paused
           THEN /\ DLSReturns(stack, FALSE, IF paused THEN "paused" ELSE "exhausted",
                              hist, paused)
                /\ UNCHANGED <<grid, dynamic_obstacles_added, path>>
           ELSE \E a \in add_dynamic_obstacle(grid, dynamic_obstacles_added) :
                /\ dynamic_obstacles_added' = a.log
                /\ IF pos = target
                   THEN /\ path' = c.path \o <<pos>>
                        /\ grid' = visualize_path(a.grid, path', start, target)
                        /\ DLSReturns(stack, TRUE, "found", Saw(hist, <<>>, a.ret), paused)
                   ELSE \E g1 \in {IF pos # start
                                     THEN [a.grid EXCEPT ![pos] = EXPLORED]
                                     ELSE a.grid} :
                            /\ grid' = g1
                            /\ stack' = Append(stack,
                                   [node |-> c.node, depth |-> c.depth,
                                    visited |-> c.visited \cup {pos}, path |-> c.path,
                                    neighbors |-> get_neighbors(g1, c.node), i |-> 1])
                            /\ call' = <<>>
                            /\ hist' = Saw(hist, <<>>, a.ret)
                            /\ UNCHANGED <<pc, success, depth, queue, bqueue, visited,
                                           costs, fvisited, bvisited, path>>
    /\ UNCHANGED <<rows, cols, start, target, uiVars, ctlVars, result, budget>>

\* variant: the for loop tests the visited set only
RECURSIVE NextNeighbor_visited_only(_, _, _)
NextNeighbor_visited_only(frame, g, j) ==
    IF j > Len(frame.neighbors) THEN j
    ELSE IF NodePos(frame.neighbors[j]) \notin frame.visited
         THEN j
         ELSE NextNeighbor_visited_only(frame, g, j + 1)

RECURSIVE NextNeighbor(_, _, _)
NextNeighbor(frame, g, j) ==
    \* the first index from j on whose neighbor passes the test of the for loop
    IF j > Len(frame.neighbors) THEN j
    ELSE IF /\ NodePos(frame.neighbors[j]) \notin frame.visited
            /\ is_valid_position(g, frame.neighbors[j].x, frame.neighbors[j].y)
         THEN j
         ELSE NextNeighbor(frame, g, j + 1)

DLSIter(evs) ==
    /\ pc \in {"DLS", "IDDFS"}
    /\ call = <<>>
    /\ stack # <<>>
    /\ \E top \in {stack[Len(stack)]}, below \in {SubSeq(stack, 1, Len(stack) - 1)} :
       \E j \in {NextNeighbor(top, grid, top.i)} :
           IF j > Len(top.neighbors)
           THEN /\ DLSReturns(below, FALSE, "exhausted", hist, paused)
                /\ UNCHANGED <<grid, paused>>
           ELSE \E neighbor \in {top.neighbors[j]},
                   h \in {handle_events_during_search(evs, paused)} :
                LET neighbor_pos == NodePos(neighbor)
                IN  /\ grid' = IF neighbor_pos # target
                               THEN [grid EXCEPT ![neighbor_pos] = FRONTIER]
                               ELSE grid
                    /\ paused' = h.paused
                    /\ IF h.ok
                       THEN /\ stack' = [stack EXCEPT ![Len(stack)].i = j]
                            /\ call' = <<[node |-> neighbor, depth |-> top.depth - 1,
                                          visited |-> top.visited,
                                          path |-> top.path \o <<NodePos(top.node)>>]>>
                            /\ hist' = Saw(hist, evs, FALSE)
                            /\ UNCHANGED <<pc, success, depth, queue, bqueue, visited,
                                           costs, fvisited, bvisited>>
                       ELSE DLSReturns(below, FALSE, "cancelled",
                                       Saw(hist, evs, FALSE), h.paused)
    /\ UNCHANGED <<rows, cols, start, target, uiVars, is_searching, search_complete,
                   result, path, dynamic_obstacles_added, budget>>

(***************************************************************************)
(* bidirectional_search                                                    *)
(***************************************************************************)
\* variant: the queued neighbor's cell is left as it is
ForwardNeighbor_unpainted(st, neighbor) ==
    LET neighbor_pos == NodePos(neighbor)
    IN  IF /\ neighbor_pos \notin DOMAIN st.visited
           /\ is_valid_position(st.grid, neighbor.x, neighbor.y)
        THEN [grid |-> st.grid,
              visited |-> (neighbor_pos :> neighbor) @@ st.visited,
              queue |-> Append(st.queue, neighbor)]
        ELSE st

ForwardNeighbor(st, neighbor) ==
    LET neighbor_pos == NodePos(neighbor)
    IN  IF /\ neighbor_pos \notin DOMAIN st.visited
           /\ is_valid_position(st.grid, neighbor.x, neighbor.y)
        THEN [grid |-> IF neighbor_pos # target
                       THEN [st.grid EXCEPT ![neighbor_pos] = FRONTIER] ELSE st.grid,
              visited |-> (neighbor_pos :> neighbor) @@ st.visited,
              queue |-> Append(st.queue, neighbor)]
        ELSE st

ForwardNeighbors(nbrs, g, fv, q) ==
    ForEach(ForwardNeighbor, nbrs, [grid |-> g, visited |-> fv, queue |-> q])

BackwardNeighbor(st, neighbor) ==
    LET neighbor_pos == NodePos(neighbor)
    IN  IF /\ neighbor_pos \notin DOMAIN st.visited
           /\ is_valid_position(st.grid, neighbor.x, neighbor.y)
        THEN [grid |-> IF neighbor_pos # start
                       THEN [st.grid EXCEPT ![neighbor_pos] = FRONTIER] ELSE st.grid,
              visited |-> (neighbor_pos :> neighbor) @@ st.visited,
              queue |-> Append(st.queue, neighbor)]
        ELSE st

BackwardNeighbors(nbrs, g, bv, q) ==
    ForEach(BackwardNeighbor, nbrs, [grid |-> g, visited |-> bv, queue |-> q])

\* variant: the two sequences are joined as they are
full_path_whole(forward_node, backward_node) ==
    reconstruct_path(forward_node) \o Reverse(reconstruct_path(backward_node))

\* full_path = forward_path + backward_path[1:] with backward_path reversed
full_path(forward_node, backward_node) ==
    reconstruct_path(forward_node) \o Tail(Reverse(reconstruct_path(backward_node)))

\* lines 452-474: the forward half of one iteration
ForwardHalf(g) ==
    IF queue = <<>>
    THEN [met |-> FALSE, grid |-> g, visited |-> fvisited, queue |-> queue]
    ELSE LET p == popleft(queue)
             current == p.item
             pos == NodePos(current)
         IN  IF pos \in DOMAIN bvisited
             THEN [met |-> TRUE, pos |-> pos, path |-> full_path(current, bvisited[pos])]
             ELSE LET g1 == IF pos # start THEN [g EXCEPT ![pos] = EXPLORED] ELSE g
                  IN  [met |-> FALSE] @@
                      ForwardNeighbors(get_neighbors(g1, current), g1, fvisited, p.rest)

\* lines 476-498: the backward half, after the forward half left g and fv
BackwardHalf(g, fv) ==
    IF bqueue = <<>>
    THEN [met |-> FALSE, grid |-> g, visited |-> bvisited, queue |-> bqueue]
    ELSE LET p == popleft(bqueue)
             current == p.item
             pos == NodePos(current)
         IN  IF pos \in DOMAIN fv
             THEN [met |-> TRUE, pos |-> pos, path |-> full_path(fv[pos], current)]
             ELSE LET g1 == IF pos # target THEN [g EXCEPT ![pos] = EXPLORED] ELSE g
                  IN  [met |-> FALSE] @@
                      BackwardNeighbors(get_neighbors(g1, current), g1, bvisited, p.rest)

BidirectionalStep(evs) ==
    /\ pc = "Bidirectional"
    /\ IF (queue = <<>> /\ bqueue = <<>>) \/ paused
       THEN /\ Return(FALSE, IF paused /\ ~(queue = <<>> /\ bqueue = <<>>)
                             THEN "paused" ELSE "exhausted", hist)
            /\ UNCHANGED <<grid, dynamic_obstacles_added, paused, path>>
       ELSE \E a \in add_dynamic_obstacle(grid, dynamic_obstacles_added) :
            \E f \in {ForwardHalf(a.grid)} :
                /\ dynamic_obstacles_added' = a.log
                /\ IF f.met
                   THEN /\ path' = f.path
                        /\ grid' = visualize_path(a.grid, path', start, target)
                        /\ Return(TRUE, "found",
                                  [Saw(hist, <<>>, a.ret)
                                      EXCEPT !.meet = <<"forward", f.pos>>])
                        /\ UNCHANGED paused
                   ELSE \E b \in {BackwardHalf(f.grid, f.visited)} :
                        LET h == handle_events_during_search(evs, paused)
                        IN  IF b.met
                            THEN /\ path' = b.path
                                 /\ grid' = visualize_path(f.grid, path', start, target)
                                 /\ Return(TRUE, "found",
                                           [Saw(hist, <<>>, a.ret)
                                               EXCEPT !.meet = <<"backward", b.pos>>])
                                 /\ UNCHANGED paused
                            ELSE /\ grid' = b.grid
                                 /\ paused' = h.paused
                                 /\ path' = path
                                 /\ IF h.ok
                                    THEN /\ queue' = f.queue
                                         /\ fvisited' = f.visited
                                         /\ bqueue' = b.queue
                                         /\ bvisited' = b.visited
                                         /\ hist' = Saw(hist, evs, a.ret)
                                         /\ UNCHANGED <<pc, success, visited, costs,
                                                        stack, call, depth>>
                                    ELSE Return(FALSE, "cancelled",
                                                Saw(hist, evs, a.ret))
    /\ UNCHANGED <<rows, cols, start, target, uiVars, is_searching, search_complete,
                   result, budget>>

(***************************************************************************)
(* run_algorithm: the prologue (with the strategy's own initialisation)    *)
(* and the epilogue.                                                       *)
(***************************************************************************)
run_algorithm ==
    IF is_searching
    THEN UNCHANGED <<grid, ctlVars, locVars, outVars, pc, hist>>
    ELSE
    LET g == clear_search_visualization(grid, start, target)
        start_node == Node(start[1], start[2], Zero, <<>>)
        target_node == Node(target[1], target[2], Zero, <<>>)
        alg == current_algorithm
    IN  /\ grid' = g
        /\ is_searching' = TRUE
        /\ search_complete' = FALSE
        /\ paused' = FALSE
        /\ success' = FALSE
        /\ path' = <<>>
        /\ result' = result
        /\ hist' = [NoHist EXCEPT !.algorithm = alg, !.grid0 = g,
                                  !.start0 = start, !.target0 = target]
        /\ pc' = alg
        /\ queue' = IF alg \in {"BFS", "DFS", "UCS", "Bidirectional"}
                    THEN <<start_node>> ELSE <<>>
        /\ visited' = IF alg \in {"BFS", "DFS"} THEN {start} ELSE {}
        /\ costs' = IF alg = "UCS" THEN (start :> Zero) ELSE <<>>
        /\ bqueue' = IF alg = "Bidirectional" THEN <<target_node>> ELSE <<>>
        /\ fvisited' = IF alg = "Bidirectional" THEN (start :> start_node) ELSE <<>>
        /\ bvisited' = IF alg = "Bidirectional" THEN (target :> target_node) ELSE <<>>
        /\ stack' = <<>>
        /\ call' = IF alg = "DLS"
                   THEN <<[node |-> start_node, depth |-> DefaultDepthLimit,
                           visited |-> {}, path |-> <<>>]>>
                   ELSE <<>>
        /\ depth' = 0

RunFinish ==
    /\ pc = "ret"
    /\ pc' = "main"
    /\ is_searching' = FALSE
    /\ search_complete' = TRUE
    /\ result' = IF success THEN PathFound ELSE NoPathFound
    /\ UNCHANGED <<gridVars, uiVars, paused, locVars, success, path,
                   dynamic_obstacles_added, hist, budget>>

(***************************************************************************)
(* The main loop (run): one action per event it dispatches.                *)
(***************************************************************************)
MainEvent ==
    /\ pc = "main"
    /\ budget > 0
    /\ budget' = budget - 1

\* variant: WALL mode writes a wall over whatever the clicked cell holds
handle_grid_click_wall_anywhere(row, col) ==
    IF current_mode = "START"
    THEN /\ grid' = [[grid EXCEPT ![start] = EMPTY] EXCEPT ![<<row, col>>] = START]
         /\ start' = <<row, col>>
         /\ target' = target
    ELSE IF current_mode = "TARGET"
    THEN /\ grid' = [[grid EXCEPT ![target] = EMPTY] EXCEPT ![<<row, col>>] = TARGET]
         /\ target' = <<row, col>>
         /\ start' = start
    ELSE /\ grid' = IF grid[<<row, col>>] = WALL
                    THEN [grid EXCEPT ![<<row, col>>] = EMPTY]
                    ELSE [grid EXCEPT ![<<row, col>>] = WALL]
         /\ UNCHANGED <<start, target>>

handle_grid_click(row, col) ==
    IF current_mode = "START"
    THEN /\ grid' = [[grid EXCEPT ![start] = EMPTY] EXCEPT ![<<row, col>>] = START]
         /\ start' = <<row, col>>
         /\ target' = target
    ELSE IF current_mode = "TARGET"
    THEN /\ grid' = [[grid EXCEPT ![target] = EMPTY] EXCEPT ![<<row, col>>] = TARGET]
         /\ target' = <<row, col>>
         /\ start' = start
    ELSE /\ grid' = IF grid[<<row, col>>] = EMPTY
                    THEN [grid EXCEPT ![<<row, col>>] = WALL]
                    ELSE IF grid[<<row, col>>] = WALL
                    THEN [grid EXCEPT ![<<row, col>>] = EMPTY]
                    ELSE grid
         /\ UNCHANGED <<start, target>>

GridClick(row, col) ==
    /\ MainEvent
    /\ ~is_searching
    /\ handle_grid_click(row, col)
    /\ UNCHANGED <<rows, cols, uiVars, ctlVars, locVars, outVars,
                   dynamic_obstacles_added, pc, hist>>

AlgoButton(a) ==
    /\ MainEvent
    /\ current_algorithm' = a
    /\ grid' = clear_search_visualization(grid, start, target)
    /\ UNCHANGED <<rows, cols, start, target, current_mode, enable_dynamic_obstacles,
                   ctlVars, locVars, outVars, dynamic_obstacles_added, pc, hist>>

StartButton ==
    /\ MainEvent
    /\ ~is_searching
    /\ run_algorithm
    /\ UNCHANGED <<rows, cols, start, target, uiVars, dynamic_obstacles_added>>

KeySpace ==
    /\ MainEvent
    /\ ~is_searching
    /\ run_algorithm
    /\ UNCHANGED <<rows, cols, start, target, uiVars, dynamic_obstacles_added>>

PauseButton ==
    /\ MainEvent
    /\ paused' = ~paused
    /\ UNCHANGED <<gridVars, uiVars, is_searching, search_complete, locVars, outVars,
                   dynamic_obstacles_added, pc, hist>>

ResetButton ==
    /\ MainEvent
    /\ grid' = clear_search_visualization(grid, start, target)
    /\ is_searching' = FALSE
    /\ paused' = FALSE
    /\ UNCHANGED <<rows, cols, start, target, uiVars, search_complete, locVars, outVars,
                   dynamic_obstacles_added, pc, hist>>

KeyR ==
    /\ MainEvent
    /\ grid' = clear_search_visualization(grid, start, target)
    /\ is_searching' = FALSE
    /\ paused' = FALSE
    /\ UNCHANGED <<rows, cols, start, target, uiVars, search_complete, locVars, outVars,
                   dynamic_obstacles_added, pc, hist>>

ClearButton ==
    /\ MainEvent
    /\ grid' = clear_all(grid)
    /\ dynamic_obstacles_added' = <<>>
    /\ is_searching' = FALSE
    /\ paused' = FALSE
    /\ UNCHANGED <<rows, cols, start, target, uiVars, search_complete, locVars, outVars,
                   pc, hist>>

ModeButton(m) ==
    /\ MainEvent
    /\ current_mode' = m
    /\ UNCHANGED <<gridVars, current_algorithm, enable_dynamic_obstacles, ctlVars,
                   locVars, outVars, dynamic_obstacles_added, pc, hist>>

DynamicToggle ==
    /\ MainEvent
    /\ enable_dynamic_obstacles' = ~enable_dynamic_obstacles
    /\ UNCHANGED <<gridVars, current_algorithm, current_mode, ctlVars,
                   locVars, outVars, dynamic_obstacles_added, pc, hist>>

(***************************************************************************)
(* Initial states.                                                         *)
(***************************************************************************)
InitGrid(r, c, s, t, walls) ==
    [ p \in Cells(r, c) |->
        IF p \in walls THEN WALL
        ELSE IF p = t THEN TARGET
        ELSE IF p = s THEN START
        ELSE EMPTY ]

InitRestButLog ==
    /\ current_mode = "WALL"
    /\ is_searching = FALSE
    /\ search_complete = FALSE
    /\ paused = FALSE
    /\ pc = "main"
    /\ queue = <<>>
    /\ bqueue = <<>>
    /\ visited = {}
    /\ costs = <<>>
    /\ fvisited = <<>>
    /\ bvisited = <<>>
    /\ stack = <<>>
    /\ call = <<>>
    /\ depth = 0
    /\ success = FALSE
    /\ result = "none"
    /\ path = <<>>
    /\ hist = NoHist

InitRest ==
    /\ dynamic_obstacles_added = <<>>
    /\ InitRestButLog

\* __init__ on a GridRows x GridCols grid
Init ==
    /\ rows = GridRows
    /\ cols = GridCols
    /\ start = <<1, 1>>
    /\ target = <<rows - 2, cols - 2>>
    /\ grid = InitGrid(rows, cols, start, target,
                       wall_positions \cap Cells(rows, cols))
    /\ current_algorithm = "BFS"
    /\ enable_dynamic_obstacles = TRUE
    /\ budget = MaxUserActions
    /\ InitRest

\* a grid the user has drawn, dynamic obstacles switched off, one Start click to come
Shapes ==
    { sh \in (1 .. MaxRows) \X (1 .. MaxCols) : sh[1] * sh[2] <= MaxCells }

SearchInit ==
    /\ \E sh \in Shapes : rows = sh[1] /\ cols = sh[2]
    /\ start \in Cells(rows, cols)
    /\ target \in Cells(rows, cols)
    /\ \E walls \in SUBSET (Cells(rows, cols) \ {start, target}) :
          /\ Cardinality(walls) <= MaxWalls
          /\ grid = InitGrid(rows, cols, start, target, walls)
    /\ current_algorithm \in Range(algorithms)
    /\ enable_dynamic_obstacles = FALSE
    /\ budget = 1
    /\ InitRest

(***************************************************************************)
(* The strategies as functions of the grid, for a run in which nothing is  *)
(* injected and no event arrives: the path handed to visualize_path, <<>>  *)
(* when the strategy returns False.                                        *)
(***************************************************************************)
BFSPath(g0) ==
    LET RECURSIVE run(_, _, _)
        run(g, q, vis) ==
            IF q = <<>> THEN <<>>
            ELSE LET it == BFSIteration(g, q, vis)
                 IN  IF it.found THEN it.path
                     ELSE run(it.grid, it.queue, it.visited)
    IN  run(g0, <<Node(start[1], start[2], Zero, <<>>)>>, {start})

DFSPath(g0) ==
    LET RECURSIVE run(_, _, _)
        run(g, stk, vis) ==
            IF stk = <<>> THEN <<>>
            ELSE LET it == DFSIteration(g, stk, vis)
                 IN  IF it.found THEN it.path
                     ELSE run(it.grid, it.queue, it.visited)
    IN  run(g0, <<Node(start[1], start[2], Zero, <<>>)>>, {start})

(***************************************************************************)
(* Baselines the claims are measured against, computed on the grid alone.  *)
(***************************************************************************)
Adjacent(p, q) == p # q /\ Abs(p[1] - q[1]) <= 1 /\ Abs(p[2] - q[2]) <= 1

Passable(g) == { p \in DOMAIN g : g[p] \notin {WALL, DYNAMIC_OBSTACLE} }

\* the least number of 8-connected moves from s to t through passable cells, -1 if none
ShortestMoves(g, s, t) ==
    LET RECURSIVE grow(_, _, _)
        grow(layer, seen, d) ==
            IF t \in layer THEN d
            ELSE LET next == { q \in Passable(g) \ seen :
                                 \E p \in layer : Adjacent(p, q) }
                 IN  IF next = {} THEN -1 ELSE grow(next, seen \cup next, d + 1)
    IN  grow({s}, {s}, 0)

Reachable(g, s, t) == ShortestMoves(g, s, t) >= 0

MoveCost(p, q) ==
    IF p[1] # q[1] /\ p[2] # q[2] THEN DiagonalCost ELSE OrthogonalCost

RECURSIVE PathCost(_)
PathCost(p) ==
    IF Len(p) <= 1 THEN 0 ELSE MoveCost(p[1], p[2]) + PathCost(Tail(p))

Min(S) == CHOOSE x \in S : \A y \in S : x <= y

\* the least total cost of a walk from s to t through passable cells, -1 if there is
\* none: cells are settled in order of cost, cheapest first
MinCost(g, s, t) ==
    LET RECURSIVE settle(_)
        settle(done) ==
            LET cells == { e[1] : e \in done }
                cand == UNION { { <<q, e[2] + MoveCost(e[1], q)>> :
                                    q \in { r \in Passable(g) \ cells : Adjacent(e[1], r) } } :
                                e \in done }
            IN  IF \E e \in done : e[1] = t
                THEN (CHOOSE e \in done : e[1] = t)[2]
                ELSE IF cand = {} THEN -1
                ELSE LET least == Min({ c[2] : c \in cand })
                     IN  settle(done \cup { CHOOSE c \in cand : c[2] = least })
    IN  settle({ <<s, 0>> })

IsPath(g, p, s, t) ==
    /\ p # <<>>
    /\ p[1] = s
    /\ p[Len(p)] = t
    /\ \A i \in 1 .. Len(p) - 1 : Adjacent(p[i], p[i + 1])
    /\ \A i \in 1 .. Len(p) : p[i] \in Passable(g)

(***************************************************************************)
(* Specifications.                                                         *)
(***************************************************************************)
\* the steps that end with a call of handle_events_during_search, which finds evs
RunStep(evs) ==
    \/ BFSStep(evs)
    \/ DFSStep(evs)
    \/ UCSStep(evs)
    \/ DLSIter(evs)
    \/ BidirectionalStep(evs)

\* the steps that look at no event
SilentStep ==
    \/ DLSCall
    \/ IDDFSIter
    \/ RunFinish

\* the whole program: a session of MaxUserActions main-loop events
Next ==
    \/ \E p \in Cells(rows, cols) : GridClick(p[1], p[2])
    \/ \E a \in Range(algorithms) : AlgoButton(a)
    \/ \E m \in Range(modes) : ModeButton(m)
    \/ StartButton
    \/ KeySpace
    \/ PauseButton
    \/ ResetButton
    \/ KeyR
    \/ ClearButton
    \/ DynamicToggle
    \/ \E evs \in EventSeqs : RunStep(evs)
    \/ SilentStep

Spec == Init /\ [][Next]_vars

\* one run on a drawn grid, no obstacle injected, no event arriving
SearchNext ==
    \/ StartButton
    \/ RunStep(<<>>)
    \/ SilentStep

SearchSpec == SearchInit /\ [][SearchNext]_vars

\* one run of uniform-cost search on a drawn grid, large enough for the cheapest path
\* to differ from the path with the fewest moves
CostInit ==
    /\ rows \in 1 .. MaxCostRows
    /\ cols \in { c \in 1 .. MaxCostCols : rows * c <= MaxCostCells }
    /\ start \in Cells(rows, cols)
    /\ target \in Cells(rows, cols)
    /\ \E walls \in SUBSET (Cells(rows, cols) \ {start, target}) :
          /\ Cardinality(walls) <= MaxCostWalls
          /\ grid = InitGrid(rows, cols, start, target, walls)
    /\ current_algorithm = "UCS"
    /\ enable_dynamic_obstacles = FALSE
    /\ budget = 1
    /\ InitRest

CostNext ==
    \/ StartButton
    \/ UCSStep(<<>>)
    \/ RunFinish

CostSpec == CostInit /\ [][CostNext]_vars

\* one run on a grid whose target the start cannot reach; events arrive and, when
\* enabled, obstacles are injected; the strategy keeps running until it returns
BlockedInit ==
    /\ rows \in 1 .. MaxBlockedRows
    /\ cols \in { c \in 1 .. MaxBlockedCols : rows * c <= MaxBlockedCells }
    /\ start \in Cells(rows, cols)
    /\ target \in Cells(rows, cols)
    /\ \E walls \in SUBSET (Cells(rows, cols) \ {start, target}) :
          /\ Cardinality(walls) <= MaxBlockedWalls
          /\ grid = InitGrid(rows, cols, start, target, walls)
    /\ ~Reachable(grid, start, target)
    /\ current_algorithm \in Range(algorithms)
    /\ enable_dynamic_obstacles \in BOOLEAN
    /\ budget = 1
    /\ InitRest

BlockedNext ==
    \/ StartButton
    \/ \E evs \in EventSeqs : RunStep(evs)
    \/ SilentStep

BlockedSpec == BlockedInit /\ [][BlockedNext]_vars /\ WF_vars(BlockedNext)

(***************************************************************************)
(* Claims.                                                                 *)
(***************************************************************************)
Strategies == Range(algorithms)

\* the strategy has returned to run_algorithm
Ret(alg) == pc = "ret" /\ hist.algorithm = alg

\* the run saw no pause, no cancel and no injected obstacle
Clean == ~hist.quit /\ ~hist.pause /\ ~hist.inject

RunMoves == ShortestMoves(hist.grid0, hist.start0, hist.target0)

RunReachable == RunMoves >= 0

NoWalls(g) == \A p \in DOMAIN g : g[p] \notin {WALL, DYNAMIC_OBSTACLE}

Chebyshev(p, q) ==
    IF Abs(p[1] - q[1]) > Abs(p[2] - q[2]) THEN Abs(p[1] - q[1]) ELSE Abs(p[2] - q[2])

\* C1: a pause does not end the run and changes neither the frontier, the visited
\* set nor the grid: while the pause flag is set inside a strategy, the strategy
\* stays where it is.
C1_PauseFreezesRun ==
    [][(pc \in Strategies /\ paused)
          => /\ pc' = pc
             /\ UNCHANGED <<grid, queue, bqueue, visited, costs, fvisited, bvisited,
                            stack, call>>]_vars

\* C2: the outcome run_algorithm reports for a run ended by a quit event is not the
\* outcome it reports for an exhausted frontier (NotFound, "No path found!").
C2_CancelDistinctFromNotFound ==
    (pc = "main" /\ hist.cause = "cancelled") => result # NoPathFound

\* C3: once a quit event has been received in a run, no grid cell changes, no path is
\* produced and the strategy takes no further step: the run only ends.
C3_NoStepAfterCancel ==
    [][(pc # "main" /\ hist.quit)
          => /\ grid' = grid
             /\ path' = path
             /\ pc' \in {"ret", "main"}]_vars

\* C4: in a run of BFS with no obstacle injected, no pause and no cancel, on a grid
\* where the target is reachable, BFS returns True with a path from start to target
\* whose number of moves is the minimum number of 8-connected moves, and the run is
\* reported as "Path found!".
C4_BFSShortest ==
    /\ (Ret("BFS") /\ Clean /\ RunReachable)
          => /\ success
             /\ IsPath(hist.grid0, path, hist.start0, hist.target0)
             /\ Len(path) - 1 = RunMoves
    /\ (pc = "main" /\ hist.algorithm = "BFS" /\ hist.cause # "none" /\ Clean
           /\ RunReachable)
          => result = PathFound

C4_Witness ==
    /\ Ret("BFS") /\ Clean /\ success
    /\ Len(path) - 1 > Chebyshev(hist.start0, hist.target0)
    /\ Len(path) - 1 = RunMoves

\* C5: in a run of UCS with no obstacle injected, no pause and no cancel, on a grid
\* where the target is reachable, UCS returns True with a path whose total cost
\* (10 per orthogonal move, 14 per diagonal move, in tenths) is the minimum over all
\* start-to-target paths, which is the cost accumulated in the goal node, and is not
\* greater than the cost of the path BFS or DFS returns on the same grid.
C5_UCSMinCost ==
    /\ (Ret("UCS") /\ Clean /\ RunReachable)
          => /\ success
             /\ IsPath(hist.grid0, path, hist.start0, hist.target0)
             /\ PathCost(path) = MinCost(hist.grid0, hist.start0, hist.target0)
             /\ PathCost(path) <= PathCost(BFSPath(hist.grid0))
             /\ PathCost(path) <= PathCost(DFSPath(hist.grid0))
    /\ (pc = "main" /\ hist.algorithm = "UCS" /\ hist.cause # "none" /\ Clean
           /\ RunReachable)
          => result = PathFound

C5_Witness ==
    /\ Ret("UCS") /\ Clean /\ success
    /\ PathCost(path) < PathCost(BFSPath(hist.grid0))
    /\ PathCost(path) < PathCost(DFSPath(hist.grid0))

\* C6: on a grid with no walls and no dynamic obstacles, bidirectional search returns
\* True with a path that has no more cells than the path BFS returns for the same
\* start and target.
C6_BidirectionalNoLongerThanBFS ==
    (Ret("Bidirectional") /\ Clean /\ NoWalls(hist.grid0))
        => /\ success
           /\ Len(path) <= Len(BFSPath(hist.grid0))

\* C7: when the target is not reachable from the start through passable cells, the
\* strategy that is run (each of the six is) returns False, the run ends, and it is
\* reported as "No path found!".
C7_UnreachableNotFound ==
    /\ []((pc = "ret" /\ ~RunReachable) => ~success)
    /\ (is_searching /\ ~RunReachable)
          ~> (pc = "main" /\ ~is_searching /\ search_complete /\ result = NoPathFound)

C7_Witness ==
    /\ pc = "main" /\ hist.algorithm = "Bidirectional" /\ hist.cause = "exhausted"
    /\ ~RunReachable
    /\ result = NoPathFound
    /\ \E p \in DOMAIN grid : grid[p] = WALL

\* C8: with no obstacle injected, no pause and no cancel, depth_limited_search with
\* depth limit d returns True exactly when the target can be reached from the start
\* in at most d moves; run by itself (limit 15) that is the outcome of the run.
C8_DLSFoundIffWithinLimit ==
    /\ (hist.algorithm \in {"DLS", "IDDFS"} /\ Clean /\ hist.dls # <<>>)
          => \E moves \in {RunMoves} :
                \A i \in DOMAIN hist.dls :
                    hist.dls[i][2] = (moves \in 0 .. hist.dls[i][1])
    /\ (Ret("DLS") /\ Clean)
          => /\ hist.dls = << <<DefaultDepthLimit, success>> >>
             /\ success = (RunMoves \in 0 .. DefaultDepthLimit)

C8_Witness ==
    /\ hist.algorithm = "IDDFS" /\ Clean
    /\ Len(hist.dls) >= 4
    /\ hist.dls[3] = <<2, FALSE>>
    /\ hist.dls[Len(hist.dls)][2] = TRUE
    /\ RunMoves = Len(hist.dls) - 1

\* the limits handed to depth_limited_search are 0, 1, 2, ... in this order, each
\* search starts on a grid without Frontier, Explored or Path cells, only the last
\* one can have succeeded, and False is returned only after limit 29 has failed
IDDFSOrder ==
    /\ \A i \in DOMAIN hist.dls : hist.dls[i][1] = i - 1
    /\ \A i \in 1 .. Len(hist.dls) - 1 : hist.dls[i][2] = FALSE
    /\ (pc = "IDDFS" /\ call # <<>> /\ stack = <<>>)
          => /\ call[1].depth = Len(hist.dls)
             /\ \A p \in DOMAIN grid : grid[p] \notin {FRONTIER, EXPLORED, PATH}
    /\ pc = "IDDFS" => depth = Len(hist.dls) /\ depth < IddfsDepths
    /\ pc = "ret"
          => /\ hist.dls # <<>>
             /\ success = hist.dls[Len(hist.dls)][2]
             /\ ~success => Len(hist.dls) = IddfsDepths

\* C9: iterative deepening calls depth_limited_search with the limits 0, 1, 2, ... in
\* this order up to 29, clears the overlay before each iteration, returns True at the
\* first limit whose search succeeds, and returns False only after the search with
\* limit 29 has failed.
C9_IDDFSOrder == hist.algorithm = "IDDFS" => IDDFSOrder

\* the same for the runs in which no pause is requested
IDDFSOrderWithoutPause == (hist.algorithm = "IDDFS" /\ ~hist.pause) => IDDFSOrder

\* C10: exactly one grid cell has state Start and exactly one has state Target.
C10_OneStartOneTarget ==
    /\ Cardinality({ p \in DOMAIN grid : grid[p] = START }) = 1
    /\ Cardinality({ p \in DOMAIN grid : grid[p] = TARGET }) = 1

\* C11: a click that would place the Start or the Target on a cell holding a Wall is
\* rejected: it leaves the grid, the start position and the target position unchanged.
C11_WallPlacementRejected ==
    [][\A p \in DOMAIN grid :
          (grid[p] = WALL /\ ((start # p /\ start' = p) \/ (target # p /\ target' = p)))
             => (grid' = grid /\ start' = start /\ target' = target)]_vars

\* a step that clears the search overlay: Reset, the R key, the choice of a strategy,
\* the start of a run
OverlayClearStep ==
    \/ ResetButton
    \/ KeyR
    \/ \E a \in Range(algorithms) : AlgoButton(a)
    \/ (~is_searching /\ (StartButton \/ KeySpace))

\* C13: a clear of the search overlay sets every Frontier, Explored and Path cell to
\* Empty, leaves every Wall and DynamicObstacle cell unchanged, leaves the cells marked
\* Start and Target marked so, and a second clear directly after it changes nothing.
C13_OverlayClear ==
    [][OverlayClearStep
          => /\ \A p \in DOMAIN grid :
                   /\ grid[p] \in {FRONTIER, EXPLORED, PATH} => grid'[p] = EMPTY
                   /\ grid[p] \in {WALL, DYNAMIC_OBSTACLE, START, TARGET}
                         => grid'[p] = grid[p]
             /\ clear_search_visualization(grid', start', target') = grid']_vars

IsPrefix(s, t) == Len(s) <= Len(t) /\ SubSeq(t, 1, Len(s)) = s

\* C14: the log of dynamic obstacles is append-only: every step that is not a press
\* of the Clear button leaves the previous log as a prefix of the new log, and a press
\* of the Clear button empties the log and leaves Empty every cell that is not Start
\* or Target.
C14_LogAppendOnly ==
    [][IF ClearButton
       THEN /\ dynamic_obstacles_added' = <<>>
            /\ \A p \in DOMAIN grid :
                  grid[p] \notin {START, TARGET} => grid'[p] = EMPTY
       ELSE IsPrefix(dynamic_obstacles_added, dynamic_obstacles_added')]_vars

\* a second position has been appended behind the first and both cells hold obstacles
C14_Witness ==
    /\ Len(dynamic_obstacles_added) = 2
    /\ dynamic_obstacles_added[1] # dynamic_obstacles_added[2]
    /\ \A i \in 1 .. 2 : grid[dynamic_obstacles_added[i]] = DYNAMIC_OBSTACLE

\* what one call of add_dynamic_obstacle on the present grid and log can do
InjectionFrame ==
    /\ \A a \in add_dynamic_obstacle(grid, dynamic_obstacles_added) :
          IF a.ret
          THEN \E p \in DOMAIN grid :
                  /\ grid[p] = EMPTY
                  /\ a.grid[p] = DYNAMIC_OBSTACLE
                  /\ \A q \in DOMAIN grid \ {p} : a.grid[q] = grid[q]
                  /\ a.log = Append(dynamic_obstacles_added, p)
          ELSE a.grid = grid /\ a.log = dynamic_obstacles_added
    /\ (~enable_dynamic_obstacles \/ \A p \in DOMAIN grid : grid[p] # EMPTY)
          => \A a \in add_dynamic_obstacle(grid, dynamic_obstacles_added) : ~a.ret

\* C15: a call of add_dynamic_obstacle that returns True changes exactly one cell, from
\* Empty to DynamicObstacle, and appends its position to the log; a call that returns
\* False (every call with dynamic obstacles disabled or with no Empty cell) changes
\* neither grid nor log.  In the steps of a run: the log grows only by the position of
\* a cell that was Empty and is DynamicObstacle afterwards, no cell becomes
\* DynamicObstacle without being logged, and the log stays when obstacles are disabled.
C15_InjectionFrame ==
    [][/\ pc \in Strategies => InjectionFrame
       /\ (dynamic_obstacles_added' # dynamic_obstacles_added /\ ~ClearButton)
             => \E p \in DOMAIN grid :
                   /\ dynamic_obstacles_added' = Append(dynamic_obstacles_added, p)
                   /\ grid[p] = EMPTY
                   /\ grid'[p] = DYNAMIC_OBSTACLE
       /\ dynamic_obstacles_added' = dynamic_obstacles_added
             => \A p \in DOMAIN grid :
                   grid'[p] = DYNAMIC_OBSTACLE => grid[p] = DYNAMIC_OBSTACLE
       /\ (~enable_dynamic_obstacles /\ ~ClearButton)
             => dynamic_obstacles_added' = dynamic_obstacles_added]_vars

\* a run in which an injection returned True, stopped right after a later call that
\* found no Empty cell
C15_Witness ==
    /\ pc \in Strategies
    /\ hist.inject
    /\ Len(dynamic_obstacles_added) = 1
    /\ grid[dynamic_obstacles_added[1]] = DYNAMIC_OBSTACLE
    /\ \A p \in DOMAIN grid : grid[p] # EMPTY

(***************************************************************************)
(* One run of each strategy on a grid the user has drawn, which may hold   *)
(* obstacles logged by earlier runs, with the dynamic obstacles switched   *)
(* on or off and no event arriving.                                        *)
(***************************************************************************)
MaxObstacleRows == 2     \* obstacle specification: largest number of rows
MaxObstacleCols == 3     \* obstacle specification: largest number of columns
MaxObstacleCells == 6    \* obstacle specification: largest number of cells
MaxObstacleWalls == 1    \* obstacle specification: largest number of walls
MaxObstacleLogged == 1   \* obstacle specification: obstacles logged by earlier runs

ObstacleInit ==
    /\ rows \in 1 .. MaxObstacleRows
    /\ cols \in { c \in 1 .. MaxObstacleCols : rows * c <= MaxObstacleCells }
    /\ start \in Cells(rows, cols)
    /\ target \in Cells(rows, cols)
    /\ \E walls \in SUBSET (Cells(rows, cols) \ {start, target}) :
          /\ Cardinality(walls) <= MaxObstacleWalls
          /\ \E n \in 0 .. MaxObstacleLogged :
                /\ dynamic_obstacles_added
                      \in [1 .. n -> Cells(rows, cols) \ (walls \cup {start, target})]
                /\ \A i, j \in 1 .. n :
                      i # j => dynamic_obstacles_added[i] # dynamic_obstacles_added[j]
                /\ grid = [ p \in Cells(rows, cols) |->
                              IF p \in Range(dynamic_obstacles_added)
                              THEN DYNAMIC_OBSTACLE
                              ELSE InitGrid(rows, cols, start, target, walls)[p] ]
    /\ current_algorithm \in Range(algorithms)
    /\ enable_dynamic_obstacles \in BOOLEAN
    /\ budget = 1
    /\ InitRestButLog

ObstacleNext ==
    \/ StartButton
    \/ RunStep(<<>>)
    \/ SilentStep

ObstacleSpec == ObstacleInit /\ [][ObstacleNext]_vars

(***************************************************************************)
(* A run of each strategy during which the user clicks the Start button    *)
(* again.  The click is queued by pygame and fetched by                    *)
(* handle_events_during_search, the only reader of the event queue until   *)
(* run_algorithm returns.                                                  *)
(***************************************************************************)
MaxClickRows == 2     \* click specification: largest number of rows
MaxClickCols == 2     \* click specification: largest number of columns
MaxClickCells == 4    \* click specification: largest number of cells

ClickInit ==
    /\ rows \in 1 .. MaxClickRows
    /\ cols \in { c \in 1 .. MaxClickCols : rows * c <= MaxClickCells }
    /\ start \in Cells(rows, cols)
    /\ target \in Cells(rows, cols)
    /\ grid = InitGrid(rows, cols, start, target, {})
    /\ current_algorithm \in Range(algorithms)
    /\ enable_dynamic_obstacles \in BOOLEAN
    /\ budget = 1
    /\ InitRest

StartClicks == UNION { [1 .. n -> {StartClick}] : n \in 0 .. MaxEvents }

ClickNext ==
    \/ StartButton
    \/ \E evs \in StartClicks : RunStep(evs)
    \/ SilentStep

ClickSpec == ClickInit /\ [][ClickNext]_vars

\* the step of the running strategy that fetched a click on the Start button
StartRequestDuringRun == \E evs \in StartClicks \ {<<>>} : RunStep(evs)

\* the same step is possible with an empty event queue, up to the record of the click
SameStepWithoutRequest ==
    \E g \in {grid'}, ctl \in {ctlVars'}, loc \in {locVars'}, out \in {outVars'},
       ui \in {uiVars'}, log \in {dynamic_obstacles_added'}, p \in {pc'}, h \in {hist'} :
       ENABLED /\ RunStep(<<>>)
               /\ grid' = g
               /\ ctlVars' = ctl
               /\ locVars' = loc
               /\ outVars' = out
               /\ uiVars' = ui
               /\ dynamic_obstacles_added' = log
               /\ pc' = p
               /\ hist' = [h EXCEPT !.click = hist.click]

\* C12: while a run is active no second run begins and the selected strategy stays
\* (at most one run is active), and a click on the Start button received during the
\* run is a no-op: the step that fetched it changes the grid, the frontier, the
\* visited set and every other variable exactly as the step does without the click.
C12_StartDuringRunIsNoOp ==
    [][/\ is_searching
          => /\ current_algorithm' = current_algorithm
             /\ hist'.algorithm = hist.algorithm
             /\ hist'.grid0 = hist.grid0
             /\ pc # "main"
       /\ StartRequestDuringRun => SameStepWithoutRequest]_vars

C12_Witness ==
    /\ hist.click
    /\ is_searching
    /\ pc \in Strategies
    /\ queue # <<>>
    /\ visited # {}

\* the entries of the neighbor list of activation k of dls_recursive that the for loop
\* has not reached yet
PendingNeighbors(k) ==
    LET frame == stack[k]
        from == IF k = Len(stack) /\ call = <<>> THEN frame.i ELSE frame.i + 1
    IN  { frame.neighbors[j] : j \in from .. Len(frame.neighbors) }

\* the nodes a strategy holds for later expansion: the queue, stack or heap, both
\* queues of the bidirectional search, the neighbor lists of the recursion
FrontierNodes ==
    Range(queue) \cup Range(bqueue) \cup UNION { PendingNeighbors(k) : k \in DOMAIN stack }

FrontierPositions == { NodePos(n) : n \in FrontierNodes }

ParentPositions(nodes) == { NodePos(n.parent[1]) : n \in { m \in nodes : m.parent # <<>> } }

\* a position held in the frontier that this step converts stays in the frontier
ConvertedStaysHeld ==
    \A p \in FrontierPositions :
       (grid[p] # DYNAMIC_OBSTACLE /\ grid'[p] = DYNAMIC_OBSTACLE /\ pc' \in Strategies)
          => p \in FrontierPositions'

\* a cell holding a dynamic obstacle is not marked, not expanded and on no path
ObstacleDropped ==
    \A p \in DOMAIN grid :
       grid[p] = DYNAMIC_OBSTACLE
          => /\ grid'[p] = DYNAMIC_OBSTACLE
             /\ p \notin ParentPositions(FrontierNodes' \ FrontierNodes)
             /\ p \notin Range(path')

\* C16: a position held in the frontier that an injection converts to a dynamic
\* obstacle stays in the frontier, and from then on the strategy drops it: the cell is
\* never marked Frontier, Explored or Path, no neighbor is generated from it, and it is
\* on no returned path.
C16_ObstacleInFrontierDropped ==
    [][(pc \in Strategies) => (ConvertedStaysHeld /\ ObstacleDropped)]_vars

\* an activation of dls_recursive whose for loop has passed over a neighbor that was
\* passable when the list was made and holds a dynamic obstacle now
C16_Witness ==
    /\ pc \in {"DLS", "IDDFS"}
    /\ \E k \in DOMAIN stack :
          \E j \in 1 .. stack[k].i - 1 :
             /\ j <= Len(stack[k].neighbors)
             /\ grid[NodePos(stack[k].neighbors[j])] = DYNAMIC_OBSTACLE
             /\ NodePos(stack[k].neighbors[j]) \notin FrontierPositions

(***************************************************************************)
(* One run of BFS on the empty 5x5 grid, for every start and target, with  *)
(* dynamic obstacles switched off and no event arriving.                   *)
(***************************************************************************)
EmptyGridInit ==
    /\ rows = 5
    /\ cols = 5
    /\ start \in Cells(rows, cols)
    /\ target \in Cells(rows, cols)
    /\ grid = InitGrid(rows, cols, start, target, {})
    /\ current_algorithm = "BFS"
    /\ enable_dynamic_obstacles = FALSE
    /\ budget = 1
    /\ InitRest

EmptyGridNext ==
    \/ StartButton
    \/ BFSStep(<<>>)
    \/ RunFinish

EmptyGridSpec == EmptyGridInit /\ [][EmptyGridNext]_vars

\* C17: on the empty 5x5 grid with start (0,0), target (4,4) and nothing injected, BFS
\* returns True with the path (0,0),(1,1),(2,2),(3,3),(4,4): 5 cells, every move
\* diagonal; the three inner cells are marked Path and "Path found!" is reported.
C17_DiagonalPath ==
    (hist.algorithm = "BFS" /\ hist.start0 = <<0, 0>> /\ hist.target0 = <<4, 4>>
        /\ ~hist.inject /\ pc \in {"ret", "main"})
       => /\ success
          /\ path = << <<0, 0>>, <<1, 1>>, <<2, 2>>, <<3, 3>>, <<4, 4>> >>
          /\ Len(path) = 5
          /\ \A i \in 1 .. Len(path) - 1 :
                Abs(path[i + 1][1] - path[i][1]) = 1 /\ Abs(path[i + 1][2] - path[i][2]) = 1
          /\ \A i \in 2 .. 4 : grid[path[i]] = PATH
          /\ pc = "main" => result = PathFound

C17_Witness ==
    /\ pc = "main"
    /\ hist.algorithm = "BFS" /\ hist.start0 = <<0, 0>> /\ hist.target0 = <<4, 4>>
    /\ NoWalls(hist.grid0)
    /\ result = PathFound
    /\ Len(path) = 5

(***************************************************************************)
(* One click in WALL mode on any cell of a grid the user has drawn.        *)
(***************************************************************************)
ToggleNext == \E p \in Cells(rows, cols) : GridClick(p[1], p[2])

ToggleSpec == ObstacleInit /\ [][ToggleNext]_vars

\* C18: a click in WALL mode on a cell marked Start or Target changes neither the grid
\* nor the start nor the target position; on an Empty cell it makes the cell Wall, on a
\* Wall cell it makes the cell Empty, and no other cell changes.
C18_WallToggle ==
    [][\A p \in DOMAIN grid :
          (current_mode = "WALL" /\ GridClick(p[1], p[2]))
             => /\ start' = start
                /\ target' = target
                /\ \A q \in DOMAIN grid \ {p} : grid'[q] = grid[q]
                /\ grid[p] \in {START, TARGET} => grid' = grid
                /\ grid[p] = EMPTY => grid'[p] = WALL
                /\ grid[p] = WALL => grid'[p] = EMPTY]_vars

\* the click has been made and the grid holds more walls than any grid drawn at the
\* outset: an Empty cell has become Wall
C18_Witness ==
    /\ pc = "main"
    /\ current_mode = "WALL"
    /\ budget = 0
    /\ Cardinality({ p \in DOMAIN grid : grid[p] = WALL }) > MaxObstacleWalls
    /\ grid[target] = TARGET

\* C19: a cell that holds a dynamic obstacle keeps it for the rest of the run: no step
\* of a strategy overwrites it with Frontier, Explored or Path, and neither the overlay
\* clear at the start of a run nor the one between two iterations of iterative
\* deepening resets it.
C19_ObstacleStays ==
    [][\A p \in DOMAIN grid :
          (grid[p] = DYNAMIC_OBSTACLE /\ (pc # "main" \/ pc' # "main"))
             => grid'[p] = DYNAMIC_OBSTACLE]_vars

\* a second run has begun on a grid holding an obstacle of the run before: the clear
\* of run_algorithm has left it, and the strategy has made at least one step around it
C19_Witness ==
    /\ pc \in Strategies
    /\ ~hist.inject
    /\ \E p \in DOMAIN grid :
          /\ grid[p] = DYNAMIC_OBSTACLE
          /\ hist.grid0[p] = DYNAMIC_OBSTACLE
    /\ \E p \in DOMAIN grid : grid[p] = EXPLORED

(***************************************************************************)
(* get_neighbors as a function of the grid and the node: the grid is drawn *)
(* with walls and logged dynamic obstacles, the node sits on any cell, and *)
(* the one step hands the node to get_neighbors and keeps the list.        *)
(***************************************************************************)
MaxNeighborRows == 3        \* neighbor specification: largest number of rows
MaxNeighborCols == 3        \* neighbor specification: largest number of columns
MaxNeighborCells == 9       \* neighbor specification: largest number of cells
MaxNeighborWalls == 1       \* neighbor specification: largest number of walls
MaxNeighborObstacles == 1   \* neighbor specification: largest number of obstacles

NeighborInit ==
    /\ rows \in 1 .. MaxNeighborRows
    /\ cols \in { c \in 1 .. MaxNeighborCols : rows * c <= MaxNeighborCells }
    /\ start = <<0, 0>>
    /\ target \in Cells(rows, cols) \ {start}
    /\ \E walls \in SUBSET (Cells(rows, cols) \ {start, target}) :
          /\ Cardinality(walls) <= MaxNeighborWalls
          /\ \E n \in 0 .. MaxNeighborObstacles :
                /\ dynamic_obstacles_added
                      \in [1 .. n -> Cells(rows, cols) \ (walls \cup {start, target})]
                /\ \A i, j \in 1 .. n :
                      i # j => dynamic_obstacles_added[i] # dynamic_obstacles_added[j]
                /\ grid = [ p \in Cells(rows, cols) |->
                              IF p \in Range(dynamic_obstacles_added)
                              THEN DYNAMIC_OBSTACLE
                              ELSE InitGrid(rows, cols, start, target, walls)[p] ]
    /\ current_algorithm = "BFS"
    /\ enable_dynamic_obstacles = TRUE
    /\ budget = 0
    /\ current_mode = "WALL"
    /\ is_searching = TRUE
    /\ search_complete = FALSE
    /\ paused = FALSE
    /\ pc = "get_neighbors"
    /\ \E p \in Cells(rows, cols), c \in {Zero, OnePointFour} :
          queue = <<Node(p[1], p[2], c, <<>>)>>
    /\ bqueue = <<>>
    /\ visited = {}
    /\ costs = <<>>
    /\ fvisited = <<>>
    /\ bvisited = <<>>
    /\ stack = <<>>
    /\ call = <<>>
    /\ depth = 0
    /\ success = FALSE
    /\ result = "none"
    /\ path = <<>>
    /\ hist = NoHist

\* neighbors = self.get_neighbors(current): the node is queue[1], the list is kept in
\* bqueue
CallGetNeighbors ==
    /\ pc = "get_neighbors"
    /\ bqueue' = get_neighbors(grid, queue[1])
    /\ pc' = "neighbors"
    /\ UNCHANGED <<gridVars, uiVars, ctlVars, outVars, queue, visited, costs, fvisited,
                   bvisited, stack, call, depth, dynamic_obstacles_added, hist, budget>>

NeighborSpec == NeighborInit /\ [][CallGetNeighbors]_vars

\* the eight moves in the order Up, Right, Down, Down-Right, Left, Up-Left, Up-Right,
\* Down-Left, as the place of the move <<dr, dc>> in that order
MoveRank(dr, dc) ==
    CASE dr = -1 /\ dc = 0 -> 1
      [] dr = 0 /\ dc = 1 -> 2
      [] dr = 1 /\ dc = 0 -> 3
      [] dr = 1 /\ dc = 1 -> 4
      [] dr = 0 /\ dc = -1 -> 5
      [] dr = -1 /\ dc = -1 -> 6
      [] dr = -1 /\ dc = 1 -> 7
      [] dr = 1 /\ dc = -1 -> 8
      [] OTHER -> 0

Enqueued == SubSeq(queue', Len(queue), Len(queue'))

Positions(nodes) == { NodePos(nodes[i]) : i \in DOMAIN nodes }

Distinct(nodes) ==
    \A i, j \in DOMAIN nodes : NodePos(nodes[i]) = NodePos(nodes[j]) => i = j

\* C21: in BFS and in DFS a position enters the visited set in the step that puts it in
\* the frontier: the positions a step enqueues were not visited before it and are the
\* only ones it adds to the visited set, which never shrinks during the run, so no
\* position is enqueued twice; the frontier never holds two nodes with the same
\* position, and every position it holds is visited.
C21_VisitedOnDiscovery ==
    [][/\ (pc' \in {"BFS", "DFS"})
            => (Distinct(queue') /\ Positions(queue') \subseteq visited')
       /\ (pc \in {"BFS", "DFS"} /\ pc' = pc)
            => /\ queue' = (IF pc = "BFS" THEN popleft(queue).rest ELSE pop(queue).rest)
                              \o Enqueued
               /\ Distinct(Enqueued)
               /\ Positions(Enqueued) \cap visited = {}
               /\ visited' = visited \cup Positions(Enqueued)]_vars

\* a frontier of three nodes at a moment when other positions, visited as well, have
\* left it
C21_Witness ==
    /\ pc \in {"BFS", "DFS"}
    /\ Len(queue) >= 3
    /\ Cardinality(visited) > Len(queue) + 1
    /\ Positions(queue) \subseteq visited

(***************************************************************************)
(* One run of uniform-cost search on a grid with two walls next to the     *)
(* corner, for every start and target, with dynamic obstacles switched off *)
(* and no event arriving.  The grid is large enough for a cell to be       *)
(* reached by the same five moves in two orders, whose float sums differ   *)
(* (1.4 + 1.4 + 1.0 + 1.0 + 1.0 and 1.4 + 1.0 + 1.4 + 1.0 + 1.0), so that  *)
(* a recorded cost is improved and a position is pushed twice.             *)
(***************************************************************************)
RoundingRows == 4
RoundingCols == 5

RoundingWalls == { <<0, 1>>, <<1, 1>> }

RoundingInit ==
    /\ rows = RoundingRows
    /\ cols = RoundingCols
    /\ start \in Cells(rows, cols) \ RoundingWalls
    /\ target \in Cells(rows, cols) \ RoundingWalls
    /\ grid = InitGrid(rows, cols, start, target, RoundingWalls)
    /\ current_algorithm = "UCS"
    /\ enable_dynamic_obstacles = FALSE
    /\ budget = 1
    /\ InitRest

RoundingSpec == RoundingInit /\ [][CostNext]_vars

\* how often node n occurs in the heap
Count(heap, n) == Cardinality({ i \in DOMAIN heap : heap[i] = n })

\* the nodes a step of uniform-cost search has pushed: those the heap holds more often
\* after the step than the heap left by heappop
Pushed == { n \in Range(queue') : Count(queue', n) > Count(heappop(queue).rest, n) }

\* the popped node's position is closed already: nothing but the heap changes
Skipped ==
    /\ queue' = heappop(queue).rest
    /\ UNCHANGED <<grid, visited, costs, pc, path>>

\* C22: in uniform-cost search a popped node whose position is closed is skipped, and a
\* popped node whose position is open closes it, so a position is expanded at most once
\* in a run; the cost recorded for a position never increases; a node is pushed only
\* when its position is not closed and its cost is strictly lower than the cost recorded
\* for the position, or none is recorded, and its cost is the one recorded afterwards.
C22_UCSBestCost ==
    [][(pc = "UCS" /\ queue # <<>> /\ ~paused)
          => LET pos == NodePos(heappop(queue).item)
             IN  /\ pos \in visited => Skipped
                 /\ (pos \notin visited /\ pc' = "UCS") => visited' = visited \cup {pos}
                 /\ pc' = "UCS"
                      => /\ \A q \in DOMAIN costs :
                               /\ q \in DOMAIN costs'
                               /\ ~FloatLt(costs[q], costs'[q])
                         /\ \A n \in Pushed :
                               /\ NodePos(n) \notin visited'
                               /\ \/ NodePos(n) \notin DOMAIN costs
                                  \/ FloatLt(n.cost, costs[NodePos(n)])
                               /\ costs'[NodePos(n)] = n.cost
                         /\ \A q \in DOMAIN costs' :
                               (q \notin DOMAIN costs \/ costs'[q] # costs[q])
                                  => \E n \in Pushed : NodePos(n) = q]_vars

\* the node at the top of the heap stands for a position that is closed: the position
\* was pushed a second time at a lower cost, the cheaper node has been expanded, and
\* the next step skips this one
C22_Witness ==
    /\ pc = "UCS"
    /\ queue # <<>>
    /\ NodePos(heappop(queue).item) \in visited
    /\ FloatLt(costs[NodePos(heappop(queue).item)], heappop(queue).item.cost)

\* the place of node n among the eight moves from node m
RankFrom(m, n) == MoveRank(n.x - m.x, n.y - m.y)

\* C23: a step of DFS expands the node on top of the stack and pushes the neighbors it
\* accepts in the reverse of their generation order, so that whenever the step has
\* pushed a neighbor the new top of the stack, which the next step pops, is the pushed
\* neighbor that comes first in the clockwise generation order.
C23_DFSClockwise ==
    [][(pc = "DFS" /\ pc' = "DFS")
          => LET current == queue[Len(queue)]
             IN  /\ queue' = SubSeq(queue, 1, Len(queue) - 1) \o Enqueued
                 /\ \A i \in DOMAIN Enqueued :
                       /\ Enqueued[i].parent = <<current>>
                       /\ RankFrom(current, Enqueued[i]) \in 1 .. 8
                 /\ \A i, j \in DOMAIN Enqueued :
                       i < j => RankFrom(current, Enqueued[i]) > RankFrom(current, Enqueued[j])
                 /\ Enqueued # <<>>
                      => \A i \in DOMAIN Enqueued :
                            RankFrom(current, pop(queue').item)
                               <= RankFrom(current, Enqueued[i])]_vars

\* the two nodes on top of the stack were pushed by the same expansion and the upper
\* one comes first in generation order
C23_Witness ==
    /\ pc = "DFS"
    /\ Len(queue) >= 2
    /\ queue[Len(queue)].parent # <<>>
    /\ queue[Len(queue)].parent = queue[Len(queue) - 1].parent
    /\ RankFrom(queue[Len(queue)].parent[1], queue[Len(queue)])
          < RankFrom(queue[Len(queue)].parent[1], queue[Len(queue) - 1])

\* how often position p occurs in the path
Occurrences(pth, p) == Cardinality({ i \in DOMAIN pth : pth[i] = p })

\* C24: when bidirectional search returns True, the path it assembled starts at the
\* start cell, ends at the target cell, holds the meeting cell exactly once, and each
\* cell of it is 8-adjacent to the next, whether the forward or the backward side saw
\* the meeting.
C24_BidirectionalPath ==
    (Ret("Bidirectional") /\ success)
        => /\ hist.meet # <<>>
           /\ hist.meet[1] \in {"forward", "backward"}
           /\ path # <<>>
           /\ path[1] = start
           /\ path[Len(path)] = target
           /\ Occurrences(path, hist.meet[2]) = 1
           /\ \A i \in 1 .. Len(path) - 1 : Adjacent(path[i], path[i + 1])

\* the backward side saw the meeting, at a cell that is neither the start nor the
\* target: both halves of the path hold more than the meeting cell
C24_Witness ==
    /\ Ret("Bidirectional") /\ success
    /\ hist.meet # <<>>
    /\ hist.meet[1] = "backward"
    /\ hist.meet[2] \notin {start, target}
    /\ Len(path) >= 4

\* the positions this step has appended to the obstacle log
Injected ==
    { dynamic_obstacles_added'[i] :
         i \in Len(dynamic_obstacles_added) + 1 .. Len(dynamic_obstacles_added') }

\* C25: whenever a strategy returns True, with dynamic obstacles enabled or disabled,
\* the path it hands over starts at the start cell, ends at the target cell and moves
\* between 8-adjacent cells only, and no cell of it is a wall or a dynamic obstacle at
\* that moment: none was one before the returning step, none is converted by the
\* injection of that step, none is one after it.
C25_FoundPathIsClear ==
    [][(pc \in Strategies /\ pc' = "ret" /\ success')
          => /\ path' # <<>>
             /\ path'[1] = start
             /\ path'[Len(path')] = target
             /\ \A i \in 1 .. Len(path') - 1 : Adjacent(path'[i], path'[i + 1])
             /\ \A i \in DOMAIN path' :
                   /\ grid[path'[i]] \notin {WALL, DYNAMIC_OBSTACLE}
                   /\ path'[i] \notin Injected
                   /\ grid'[path'[i]] \notin {WALL, DYNAMIC_OBSTACLE}]_vars

\* a strategy has returned a path of three or more cells after an obstacle was injected
\* next to an inner cell of the path
C25_Witness ==
    /\ pc = "ret"
    /\ success
    /\ hist.inject
    /\ Len(path) >= 3
    /\ \E i \in 2 .. Len(path) - 1 :
          \E p \in DOMAIN grid :
             /\ grid[p] = DYNAMIC_OBSTACLE
             /\ Adjacent(p, path[i])
             /\ p = dynamic_obstacles_added[Len(dynamic_obstacles_added)]

\* the strategies that keep their frontier in a queue, a stack or a heap
QueueStrategies == {"BFS", "DFS", "UCS", "Bidirectional"}

\* the positions held in the queue, stack or heap and in the backward queue
Queued == Positions(queue) \cup Positions(bqueue)

\* C26: during a run of BFS, DFS, UCS or bidirectional search the cell of every position
\* held in a frontier is Start, Target, Frontier or Explored, never Empty, and no
\* injection converts a position that is held in a frontier before or after the step.
C26_QueuedNeverEmpty ==
    [][/\ (pc' \in QueueStrategies)
            => \A p \in Queued' : grid'[p] \in {START, TARGET, FRONTIER, EXPLORED}
       /\ (pc \in QueueStrategies)
            => Injected \cap (Queued \cup Queued') = {}]_vars

\* a frontier of two or more positions, one of them marked Frontier and next to the
\* obstacle injected last
C26_Witness ==
    /\ pc \in QueueStrategies
    /\ hist.inject
    /\ Cardinality(Queued) >= 2
    /\ \E p \in Queued :
          /\ grid[p] = FRONTIER
          /\ Adjacent(p, dynamic_obstacles_added[Len(dynamic_obstacles_added)])
    /\ grid[dynamic_obstacles_added[Len(dynamic_obstacles_added)]] = DYNAMIC_OBSTACLE

(***************************************************************************)
(* One run of each strategy as in the obstacle specification, no pause and *)
(* no quit event arriving, obstacles injected or not.  run_algorithm calls *)
(* the strategy and the strategy runs its loop or its recursion without    *)
(* waiting for anything, so a step of the run that can be taken is taken.  *)
(***************************************************************************)
RunToEndSpec ==
    ObstacleInit /\ [][ObstacleNext]_vars /\ WF_vars(RunStep(<<>>) \/ SilentStep)

\* run_algorithm has returned
RunEnded ==
    /\ pc = "main"
    /\ ~is_searching
    /\ search_complete
    /\ result \in {PathFound, NoPathFound}

\* C27: a run of any strategy that sees no pause and no quit event ends, whatever
\* obstacles are injected during it: the strategy returns True or False, and when
\* run_algorithm has returned the outcome is "Path found!" or "No path found!", the
\* controller is not searching any more and the search is marked complete.
C27_RunEnds ==
    /\ is_searching ~> RunEnded
    /\ [][(pc = "ret") => (is_searching /\ RunEnded'
                            /\ result' = IF success THEN PathFound ELSE NoPathFound)]_vars
    /\ []((pc = "main" /\ hist.algorithm # "none") => RunEnded)

\* a run during which obstacles were injected has ended with "No path found!": the
\* obstacles cut the target off
C27_Witness ==
    /\ RunEnded
    /\ hist.inject
    /\ hist.cause = "exhausted"
    /\ result = NoPathFound
    /\ Reachable(hist.grid0, hist.start0, hist.target0)

====
